---- MODULE Spec2Model ----
(***************************************************************************)
(* Envelope-encryption rule executor of confluent-kafka-go                 *)
(* (schemaregistry/rules/encryption/encrypt_executor.go).                  *)
(*                                                                         *)
(* The model has the key registry (KEK and DEK records), the executor's    *)
(* clock, and a fixed set of workers, each running Executor.Transform      *)
(* invocations one after the other.  A step of a worker is one interaction *)
(* with the world outside the invocation (a registry request, a clock      *)
(* read, a KMS call) together with the local computation that follows it   *)
(* up to the next interaction.  Steps of different workers interleave.     *)
(***************************************************************************)
EXTENDS Integers, Sequences, FiniteSets, TLC

\* ------------------------------------------------------------------ bounds
\* Workers that run invocations concurrently.
NumWorkers == 2
\* Invocations one worker runs, one after the other.
MaxInvocations == 2
\* Days the clock can advance.
MaxDays == 2
\* Largest encrypt.dek.expiry.days a rule carries.
MaxExpiryDays == 1
\* Registry requests answered with a failure that is neither 404 nor 409.
MaxFaults == 1
\* Configure calls on one Executor.
MaxConfigureCalls == 3
\* The longest ciphertext framed on its own.
MaxFrameLen == 3

\* -------------------------------------------------------- program constants
MillisInDay == 86400000
MagicByteV0 == 0

Aes128Gcm == "AES128_GCM"
Aes256Gcm == "AES256_GCM"
Aes256Siv == "AES256_SIV"

\* --------------------------------------------------------------- input sets
Workers == 1..NumWorkers
Write == "WRITE"
Read == "READ"
Upgrade == "UPGRADE"
RuleModes == {Write, Read, Upgrade}
Algorithms == {Aes128Gcm, Aes256Gcm, Aes256Siv}
\* "" stands for a parameter that is absent or empty: the code tests
\* (p == nil || len(*p) == 0) and (p != nil && len(*p) != 0) only.
KmsTypes == {"kmsA", "kmsB"}
KmsKeyIDs == {"id1", "id2"}
KekNames == {"kek1"}
Subjects == {"topic-value"}
TypeString == "STRING"
TypeBytes == "BYTES"
TypeInt == "INT"
\* Nonces a randomized AEAD can draw; the deterministic AEAD draws none.
NonceSet == {254}
\* Field values handed to a write.
Plaintexts == {<<200, 100>>}
\* The instants the clock takes: the day boundaries.
ClockValues == {d * MillisInDay : d \in 0..MaxDays}

\* A Go pointer: <<>> is nil, <<x>> points to x.
Nil == <<>>
Ptr(x) == <<x>>

\* ------------------------------------------------------- ciphertext framing
\* binary.BigEndian.PutUint32 of uint32(v): the four low bytes of v in two's
\* complement (\div rounds down and % is never negative), high byte first.
BigEndianUint32(v) ==
    <<(v \div 16777216) % 256, (v \div 65536) % 256, (v \div 256) % 256, v % 256>>

\* A framing that writes the version low byte first.
prefixVersionLittleEndian(version, ciphertext) ==
    <<MagicByteV0, version % 256, (version \div 256) % 256,
      (version \div 65536) % 256, (version \div 16777216) % 256>> \o ciphertext

\* prefixVersion: marker, uint32(version) big-endian, ciphertext.
prefixVersion(version, ciphertext) ==
    <<MagicByteV0>> \o BigEndianUint32(version) \o ciphertext

\* An extractVersion that reads the two low bytes of the version only.
extractVersionLowBytes(ciphertext) ==
    IF Len(ciphertext) = 0 THEN [kind |-> "panic", version |-> -1]
    ELSE IF ciphertext[1] # MagicByteV0 THEN [kind |-> "err", version |-> -1]
    ELSE IF Len(ciphertext) < 5 THEN [kind |-> "panic", version |-> -1]
    ELSE [kind |-> "ok", version |-> ciphertext[4] * 256 + ciphertext[5]]

\* extractVersion: indexes ciphertext[0] and ciphertext[1:5] unchecked.
extractVersion(ciphertext) ==
    IF Len(ciphertext) = 0 THEN [kind |-> "panic", version |-> -1]
    ELSE IF ciphertext[1] # MagicByteV0 THEN [kind |-> "err", version |-> -1]
    ELSE IF Len(ciphertext) < 5 THEN [kind |-> "panic", version |-> -1]
    ELSE [kind |-> "ok",
          version |-> ciphertext[2] * 16777216 + ciphertext[3] * 65536
                      + ciphertext[4] * 256 + ciphertext[5]]

\* ------------------------------------------------------------------- base64
\* base64.StdEncoding over byte sequences; a string is its sequence of bytes.
B64Char(i) ==
    IF i < 26 THEN 65 + i
    ELSE IF i < 52 THEN 97 + (i - 26)
    ELSE IF i < 62 THEN 48 + (i - 52)
    ELSE IF i = 62 THEN 43 ELSE 47

B64Index(c) ==
    IF c >= 65 /\ c <= 90 THEN c - 65
    ELSE IF c >= 97 /\ c <= 122 THEN c - 97 + 26
    ELSE IF c >= 48 /\ c <= 57 THEN c - 48 + 52
    ELSE IF c = 43 THEN 62
    ELSE IF c = 47 THEN 63 ELSE -1

RECURSIVE EncodeToString(_)
EncodeToString(b) ==
    IF Len(b) = 0 THEN <<>>
    ELSE IF Len(b) = 1 THEN
        <<B64Char(b[1] \div 4), B64Char((b[1] % 4) * 16), 61, 61>>
    ELSE IF Len(b) = 2 THEN
        <<B64Char(b[1] \div 4), B64Char((b[1] % 4) * 16 + b[2] \div 16),
          B64Char((b[2] % 16) * 4), 61>>
    ELSE
        <<B64Char(b[1] \div 4), B64Char((b[1] % 4) * 16 + b[2] \div 16),
          B64Char((b[2] % 16) * 4 + b[3] \div 64), B64Char(b[3] % 64)>>
        \o EncodeToString(SubSeq(b, 4, Len(b)))

\* One group of four characters; padding is legal in the last group only.
DecodeQuad(q, last) ==
    LET i1 == B64Index(q[1])
        i2 == B64Index(q[2])
        i3 == B64Index(q[3])
        i4 == B64Index(q[4])
    IN  IF i1 < 0 \/ i2 < 0 THEN [ok |-> FALSE, bytes |-> <<>>]
        ELSE IF q[3] = 61 THEN
            IF last /\ q[4] = 61
            THEN [ok |-> TRUE, bytes |-> <<(i1 * 4 + i2 \div 16) % 256>>]
            ELSE [ok |-> FALSE, bytes |-> <<>>]
        ELSE IF i3 < 0 THEN [ok |-> FALSE, bytes |-> <<>>]
        ELSE IF q[4] = 61 THEN
            IF last
            THEN [ok |-> TRUE,
                  bytes |-> <<(i1 * 4 + i2 \div 16) % 256,
                              ((i2 % 16) * 16 + i3 \div 4) % 256>>]
            ELSE [ok |-> FALSE, bytes |-> <<>>]
        ELSE IF i4 < 0 THEN [ok |-> FALSE, bytes |-> <<>>]
        ELSE [ok |-> TRUE,
              bytes |-> <<(i1 * 4 + i2 \div 16) % 256,
                          ((i2 % 16) * 16 + i3 \div 4) % 256,
                          ((i3 % 4) * 64 + i4) % 256>>]

RECURSIVE DecodeString(_)
DecodeString(s) ==
    IF Len(s) = 0 THEN [ok |-> TRUE, bytes |-> <<>>]
    ELSE IF Len(s) < 4 THEN [ok |-> FALSE, bytes |-> <<>>]
    ELSE
        LET head == DecodeQuad(SubSeq(s, 1, 4), Len(s) = 4)
            rest == DecodeString(SubSeq(s, 5, Len(s)))
        IN  IF head.ok /\ rest.ok
            THEN [ok |-> TRUE, bytes |-> head.bytes \o rest.bytes]
            ELSE [ok |-> FALSE, bytes |-> <<>>]

\* ------------------------------------------------------------------ cryptor
\* getCryptor: the algorithm parameter, AES256_GCM when absent.  "" is absent.
getCryptor(algorithm) ==
    IF algorithm = "" THEN Aes256Gcm ELSE algorithm

\* The key type a key template names; raw keys of one type do not load as
\* another.
KeyTypeOf(dekFormat) ==
    IF dekFormat = Aes128Gcm THEN 1 ELSE IF dekFormat = Aes256Gcm THEN 2 ELSE 3

\* Cryptor.encrypt: a deterministic AEAD for AES256_SIV, a randomized AEAD
\* otherwise.  The ciphertext is key type, key check, nonce, then the
\* plaintext masked by key and nonce: it decrypts under the same key and
\* algorithm only.
CryptorEncrypt(dekFormat, key, plaintext, nonce) ==
    LET n == IF dekFormat = Aes256Siv THEN 0 ELSE nonce
    IN  <<KeyTypeOf(dekFormat), key, n>>
        \o [i \in 1..Len(plaintext) |-> (plaintext[i] + key + n) % 256]

\* Cryptor.decrypt: fails unless the ciphertext was made with this key and
\* algorithm.
CryptorDecrypt(dekFormat, key, ciphertext) ==
    IF \/ Len(ciphertext) < 3
       \/ ciphertext[1] # KeyTypeOf(dekFormat)
       \/ ciphertext[2] # key
    THEN [ok |-> FALSE, bytes |-> <<>>]
    ELSE [ok |-> TRUE,
          bytes |-> [i \in 1..(Len(ciphertext) - 3) |->
                        (ciphertext[i + 3] + 512 - key - ciphertext[3]) % 256]]

\* toBytes
toBytes(fieldType, obj) ==
    IF fieldType \in {TypeBytes, TypeString} THEN Ptr(obj) ELSE Nil

\* --------------------------------------------------------------------- KMS
\* getAead: the AEAD handle of the master key kmsType://kmsKeyID.
KekURL(kek) == <<kek.KmsType, kek.KmsKeyID>>

\* The byte by which a wrapped key names the master key that wrapped it.
UrlTag(url) ==
    (IF url[1] = "kmsA" THEN 16 ELSE 32) + (IF url[2] = "id1" THEN 1 ELSE 2)

\* primitive.Encrypt / primitive.Decrypt of raw DEK bytes under a master key,
\* empty associated data: the wrapped bytes unwrap under the same master key
\* only.
AeadWrap(url, rawDek) == <<UrlTag(url), rawDek>>
AeadUnwrap(url, wrapped) ==
    IF Len(wrapped) = 2 /\ wrapped[1] = UrlTag(url)
    THEN [ok |-> TRUE, raw |-> wrapped[2]]
    ELSE [ok |-> FALSE, raw |-> 0]

\* registry.GetKMSClient(kekURL): the first registered client that supports
\* the URL, Nil when there is none.
GetKMSClient(clients, url) ==
    LET hits == {i \in 1..Len(clients) : clients[i].url = url}
    IN  IF hits = {} THEN Nil
        ELSE Ptr(clients[CHOOSE i \in hits : \A j \in hits : i <= j])

\* kmsDriver.NewKMSClient(config, keyURL): a new client for the URL, an object
\* of its own: id tells it from the clients made before it.
NewKMSClient(url, id) == [url |-> url, id |-> id]

\* registry.RegisterKMSClient(kmsClient): the client is added to the list.
RegisterKMSClient(clients, client) == Append(clients, client)

\* ------------------------------------------------------------------- state
VARIABLES
    now,        \* Executor.Clock: the value NowUnixMilli returns
    keks,       \* the registry's KEK records
    deks,       \* the registry's DEK records
    faults,     \* registry requests that may still be answered with a fatal failure
    left,       \* per worker: invocations it may still start
    tr,         \* per worker: the ExecutorTransform invocation it runs
    produced,   \* outputs of completed write invocations
    rule,       \* per worker: the parameters of the rule its invocations run under
    role,       \* per worker: the rule modes its invocations run in
    Config,     \* Executor.Config: Nil or a pointer to the map
    Client,     \* Executor.Client: Nil or a pointer to the client's config
    calls,      \* Configure calls made so far
    last,       \* the last Configure call: arguments, state before, result
    kmsClients  \* the process-wide list of registered KMS clients

vars == <<now, keks, deks, faults, left, tr, produced, rule, role, Config, Client, calls,
          last, kmsClients>>
registryVars == <<keks, deks>>
configureVars == <<Config, Client, calls, last>>
ruleVars == <<rule, role>>

\* The rule context of an invocation: serde.RuleContext as this file reads it.
\* KmsType and KmsKeyID are read by getOrCreateKek alone: they are its locals
\* kmsType and kmsKeyID, gone when it has returned a KEK.
NoCtx ==
    [RuleMode |-> Write, KekName |-> "", Subject |-> "", Algorithm |-> "",
     ExpiryDays |-> 0]

\* A worker that runs no invocation.
Idle ==
    [pc |-> "idle", ctx |-> NoCtx, kmsType |-> "", kmsKeyID |-> "", Kek |-> Nil, fieldType |-> "", fieldValue |-> <<>>,
     input |-> <<>>, version |-> 0, dek |-> Nil, isExpired |-> FALSE,
     encryptedDek |-> Nil, primitive |-> Nil, newVersion |-> 0, clock |-> 0,
     result |-> Nil, err |-> "", reqs |-> <<>>, kmsCalls |-> 0, msg |-> Nil,
     used |-> Nil]

\* One registry request as the invocation saw it: the operation, the DEK
\* version it named (0 for a KEK), the answer's class and the DEK version the
\* answer carried (0 for none).
Req(op, ver, st, got) == [op |-> op, ver |-> ver, st |-> st, got |-> got]

isRead(w) == w.ctx.RuleMode = Read
isDekRotated(w) == w.ctx.ExpiryDays > 0

\* An invocation that has returned: its locals are gone; what stays is what
\* it was called with, what it returned and what it did on the way.
Return(w) ==
    [Idle EXCEPT !.pc = "done", !.ctx = w.ctx, !.kmsType = w.kmsType,
                 !.kmsKeyID = w.kmsKeyID, !.msg = w.msg, !.result = w.result,
                 !.err = w.err, !.reqs = w.reqs, !.kmsCalls = w.kmsCalls,
                 !.used = w.used]

\* A failed invocation: the error goes back to the caller of Executor.Transform.
Fail(w, e) == Return([w EXCEPT !.err = e])

\* An invocation that panicked: a run-time error no code here recovers from
\* unwinds Executor.Transform; nothing is returned.
Panic(w, e) == [Return([w EXCEPT !.err = e]) EXCEPT !.pc = "panic"]

\* ---------------------------------------------------------- registry client
\* The answers a registry request can get: the registry's own, or, while the
\* fault budget lasts, a failure that is neither 404 nor 409.
Fatal == "500"
WithFault(answers, blank) ==
    answers \cup (IF faults > 0 THEN {[blank EXCEPT !.st = Fatal]} ELSE {})

\* Client.GetKek(name, deleted).  No record is ever soft-deleted here, so the
\* deleted flag selects nothing.
GetKek(name) ==
    WithFault(
        IF \E k \in keks : k.Name = name
        THEN {[st |-> "200", kek |-> Ptr(k), keks |-> keks] : k \in {x \in keks : x.Name = name}}
        ELSE {[st |-> "404", kek |-> Nil, keks |-> keks]},
        [st |-> "", kek |-> Nil, keks |-> keks])

\* Client.RegisterKek(name, kmsType, kmsKeyID, nil, "", shared): a second
\* registration of a name is a conflict.
RegisterKek(name, kmsType, kmsKeyID, shared) ==
    WithFault(
        IF \E k \in keks : k.Name = name
        THEN {[st |-> "409", kek |-> Nil, keks |-> keks]}
        ELSE LET k == [Name |-> name, KmsType |-> kmsType,
                       KmsKeyID |-> kmsKeyID, Shared |-> shared]
             IN  {[st |-> "200", kek |-> Ptr(k), keks |-> keks \cup {k}]},
        [st |-> "", kek |-> Nil, keks |-> keks])

\* retrieveKekFromRegistry: 404 is (nil, nil), any other failure (nil, err).
retrieveKekFromRegistry(a) ==
    IF a.st = "200" THEN [kek |-> a.kek, err |-> ""]
    ELSE IF a.st = "404" THEN [kek |-> Nil, err |-> ""]
    ELSE [kek |-> Nil, err |-> "rest error " \o a.st]

\* storeKekToRegistry: 409 is (nil, nil), any other failure (nil, err).
storeKekToRegistry(a) ==
    IF a.st = "200" THEN [kek |-> a.kek, err |-> ""]
    ELSE IF a.st = "409" THEN [kek |-> Nil, err |-> ""]
    ELSE [kek |-> Nil, err |-> "rest error " \o a.st]

\* A key ID check that lets every KEK pass.
KekMismatchNever(w, kek) == FALSE

\* ------------------------------------------------------------ getOrCreateKek
\* The tail of getOrCreateKek: the rule's KMS type and key ID, when given,
\* must be the resolved KEK's.  NewTransform then keeps the KEK.
KekMismatchType(w, kek) == w.kmsType # "" /\ w.kmsType # kek.KmsType
KekMismatchKeyID(w, kek) == w.kmsKeyID # "" /\ w.kmsKeyID # kek.KmsKeyID
KekChecked(w, kek) ==
    IF KekMismatchType(w, kek) THEN Fail(w, "kms type differs")
    ELSE IF KekMismatchKeyID(w, kek) THEN Fail(w, "kms key id differs")
    ELSE [w EXCEPT !.pc = "transform", !.Kek = Ptr(kek)]

\* A getOrCreateKek that lets a reader go on to register a missing KEK.
AfterKekLookupAnyMode(w, r) ==
    IF r.kek = Nil THEN
        IF w.kmsType = "" THEN Fail(w, "no kms type found during produce")
        ELSE IF w.kmsKeyID = "" THEN Fail(w, "no kms key id found during produce")
        ELSE [w EXCEPT !.pc = "regKek"]
    ELSE KekChecked(w, r.kek[1])

\* After the first lookup: a missing KEK is fatal to a reader and to a rule
\* without KMS type or key ID; otherwise the KEK is registered next.  The
\* lookup's error is not examined.
AfterKekLookup(w, r) ==
    IF r.kek = Nil THEN
        IF isRead(w) THEN Fail(w, "no kek found during consume")
        ELSE IF w.kmsType = "" THEN Fail(w, "no kms type found during produce")
        ELSE IF w.kmsKeyID = "" THEN Fail(w, "no kms key id found during produce")
        ELSE [w EXCEPT !.pc = "regKek"]
    ELSE KekChecked(w, r.kek[1])

\* A getOrCreateKek that fails when the registration gave no KEK.
AfterKekStoreNoRefetch(w, r) ==
    IF r.kek = Nil THEN Fail(w, "kek registration failed")
    ELSE KekChecked(w, r.kek[1])

\* After the registration: no KEK in hand means a refetch.  The
\* registration's error is not examined.
AfterKekStore(w, r) ==
    IF r.kek = Nil THEN [w EXCEPT !.pc = "refetchKek"]
    ELSE KekChecked(w, r.kek[1])

\* After the refetch: its error is returned; no KEK is fatal.
AfterKekRefetch(w, r) ==
    IF r.err # "" THEN Fail(w, r.err)
    ELSE IF r.kek = Nil THEN Fail(w, "no kek found during produce")
    ELSE KekChecked(w, r.kek[1])

\* The parameters a rule can carry: ctx.GetParameter of encrypt.kek.name,
\* encrypt.kms.type, encrypt.kms.key.id, encrypt.dek.algorithm and
\* encrypt.dek.expiry.days.
Rules ==
    [KekName : KekNames, KmsType : KmsTypes \cup {""}, KmsKeyID : KmsKeyIDs \cup {""},
     Algorithm : Algorithms, ExpiryDays : 0..MaxExpiryDays]

\* The rule contexts worker p's invocations can be started with: its rule,
\* in a mode of its role (a serializer writes, a deserializer reads).
Contexts(p) ==
    [RuleMode : role[p], KekName : {rule[p].KekName}, Subject : Subjects,
     Algorithm : {rule[p].Algorithm}, ExpiryDays : {rule[p].ExpiryDays}]


\* Executor.Transform up to the first registry answer: NewTransform reads the
\* rule parameters and getOrCreateKek looks the KEK up.
NewTransform(p) ==
    /\ tr[p].pc \in {"idle", "done"}
    /\ left[p] > 0
    /\ \E c \in Contexts(p) : \E a \in GetKek(c.KekName) :
        LET w == [Idle EXCEPT !.ctx = c, !.kmsType = rule[p].KmsType,
                              !.kmsKeyID = rule[p].KmsKeyID,
                              !.reqs = <<Req("GetKek", 0, a.st, 0)>>]
        IN  /\ tr' = [tr EXCEPT ![p] = AfterKekLookup(w, retrieveKekFromRegistry(a))]
            /\ faults' = faults - (IF a.st = Fatal THEN 1 ELSE 0)
    /\ left' = [left EXCEPT ![p] = @ - 1]
    /\ UNCHANGED <<now, keks, deks, produced, ruleVars, configureVars, kmsClients>>

\* getOrCreateKek registers the KEK, unshared.
KekRegister(p) ==
    /\ tr[p].pc = "regKek"
    /\ \E a \in RegisterKek(tr[p].ctx.KekName, tr[p].kmsType, tr[p].kmsKeyID, FALSE) :
        LET w == [tr[p] EXCEPT !.reqs = Append(@, Req("RegisterKek", 0, a.st, 0))]
        IN  /\ tr' = [tr EXCEPT ![p] = AfterKekStore(w, storeKekToRegistry(a))]
            /\ keks' = a.keks
            /\ faults' = faults - (IF a.st = Fatal THEN 1 ELSE 0)
    /\ UNCHANGED <<now, deks, left, produced, ruleVars, configureVars, kmsClients>>

\* getOrCreateKek fetches the KEK again after a registration gave none.
KekRefetch(p) ==
    /\ tr[p].pc = "refetchKek"
    /\ \E a \in GetKek(tr[p].ctx.KekName) :
        LET w == [tr[p] EXCEPT !.reqs = Append(@, Req("GetKek", 0, a.st, 0))]
        IN  /\ tr' = [tr EXCEPT ![p] = AfterKekRefetch(w, retrieveKekFromRegistry(a))]
            /\ faults' = faults - (IF a.st = Fatal THEN 1 ELSE 0)
    /\ UNCHANGED <<now, keks, deks, left, produced, ruleVars, configureVars, kmsClients>>

\* ------------------------------------------------------- registry client, DEKs
\* The DEK records of one (KEK name, subject, algorithm).
DeksOf(store, kekName, subject, algorithm) ==
    {d \in store : d.KekName = kekName /\ d.Subject = subject /\ d.Algorithm = algorithm}

\* Client.GetDekVersion(kekName, subject, version, algorithm, deleted) and
\* Client.GetDek: version 0 and version -1 name the latest version.
GetDekVersion(kekName, subject, version, algorithm) ==
    LET all == DeksOf(deks, kekName, subject, algorithm)
        hit == IF version \in {0, -1}
               THEN {d \in all : \A e \in all : e.Version <= d.Version}
               ELSE {d \in all : d.Version = version}
    IN  WithFault(
            IF hit # {}
            THEN {[st |-> "200", dek |-> Ptr(d), deks |-> deks] : d \in hit}
            ELSE {[st |-> "404", dek |-> Nil, deks |-> deks]},
            [st |-> "", dek |-> Nil, deks |-> deks])

\* Client.RegisterDekVersion(kekName, subject, version, algorithm, material):
\* a second registration of a version is a conflict.  The registry stamps the
\* record with the time.  Under a shared KEK the registry makes the key
\* material itself and returns it decrypted; otherwise it keeps the wrapped
\* material it was sent.  Without the KEK there is nothing to register under.
RegisterDekVersion(kekName, subject, version, algorithm, encryptedDekStr) ==
    LET all == DeksOf(deks, kekName, subject, algorithm)
        kek == CHOOSE k \in keks : k.Name = kekName
        made(enc, raw) ==
            [KekName |-> kekName, Subject |-> subject, Version |-> version,
             Algorithm |-> algorithm, Ts |-> now,
             EncryptedKeyMaterial |-> enc, KeyMaterial |-> raw]
        k == 128 + version
        fresh == IF kek.Shared
                 THEN {made(EncodeToString(AeadWrap(KekURL(kek), k)), Ptr(k))}
                 ELSE {made(encryptedDekStr, Nil)}
    IN  WithFault(
            IF \A x \in keks : x.Name # kekName
            THEN {[st |-> "404", dek |-> Nil, deks |-> deks]}
            ELSE IF \E d \in all : d.Version = version
            THEN {[st |-> "409", dek |-> Nil, deks |-> deks]}
            ELSE {[st |-> "200", dek |-> Ptr(d), deks |-> deks \cup {d}] : d \in fresh},
            [st |-> "", dek |-> Nil, deks |-> deks])

\* retrieveDekFromRegistry: 404 is (nil, nil), any other failure (nil, err).
retrieveDekFromRegistry(a) ==
    IF a.st = "200" THEN [dek |-> a.dek, err |-> ""]
    ELSE IF a.st = "404" THEN [dek |-> Nil, err |-> ""]
    ELSE [dek |-> Nil, err |-> "rest error " \o a.st]

\* storeDekToRegistry: 409 is (nil, nil), any other failure (nil, err).
storeDekToRegistry(a) ==
    IF a.st = "200" THEN [dek |-> a.dek, err |-> ""]
    ELSE IF a.st = "409" THEN [dek |-> Nil, err |-> ""]
    ELSE [dek |-> Nil, err |-> "rest error " \o a.st]

\* The DEK version an answer carried, 0 for none.
Got(a) == IF a.dek = Nil THEN 0 ELSE a.dek[1].Version

\* ----------------------------------------------------------------- Transform
\* What a write can be handed: a string or a byte field, or a field of a type
\* that is neither.
WriteInputs ==
    {[fieldType |-> t, value |-> v, msg |-> Nil] :
        t \in {TypeString, TypeBytes}, v \in Plaintexts}
    \cup {[fieldType |-> TypeInt, value |-> <<42>>, msg |-> Nil]}

\* Byte fields no write made: empty, the marker with fewer than four bytes
\* after it, and six bytes that do not start with the marker.
Malformed == {<<>>, <<MagicByteV0, 0, 0>>, <<7, 0, 0, 0, 1, 9>>}

\* What a read can be handed: the output of an earlier write, a field of a
\* type that is neither string nor bytes, or bytes or text no write made.
ReadInputs ==
    {[fieldType |-> m.fieldType, value |-> m.value, msg |-> Ptr(m)] : m \in produced}
    \cup {[fieldType |-> TypeInt, value |-> <<42>>, msg |-> Nil]}
    \cup {[fieldType |-> TypeBytes, value |-> c, msg |-> Nil] : c \in Malformed}
    \cup {[fieldType |-> TypeString, value |-> EncodeToString(<<MagicByteV0, 0, 0>>),
           msg |-> Nil]}

\* ExecutorTransform.Transform from its entry to the call of getOrCreateDek:
\* the worker record with pc "getDek" when the DEK is to be looked up, and a
\* finished one otherwise.
TransformEntry(w, in) ==
    LET v == [w EXCEPT !.fieldType = in.fieldType, !.fieldValue = in.value, !.msg = in.msg,
                       !.kmsType = "", !.kmsKeyID = ""]
        bytes == toBytes(in.fieldType, in.value)
    IN  IF v.ctx.RuleMode = Write THEN
            IF bytes = Nil THEN Fail(v, "type not supported for encryption")
            ELSE [v EXCEPT !.pc = "getDek", !.input = bytes[1],
                           !.version = IF isDekRotated(v) THEN -1 ELSE 1]
        ELSE IF v.ctx.RuleMode = Read THEN
            IF bytes = Nil THEN Return([v EXCEPT !.result = Ptr(in.value)])
            ELSE
                LET dec == IF in.fieldType = TypeString THEN DecodeString(bytes[1])
                           ELSE [ok |-> TRUE, bytes |-> bytes[1]]
                    ver == extractVersion(dec.bytes)
                IN  IF ~dec.ok THEN Fail(v, "illegal base64 data")
                    ELSE IF ~isDekRotated(v) THEN
                        [v EXCEPT !.pc = "getDek", !.input = dec.bytes, !.version = 1]
                    ELSE IF ver.kind = "panic" THEN Panic(v, "index out of range")
                    ELSE IF ver.kind = "err" THEN Fail(v, "unknown magic byte")
                    ELSE [v EXCEPT !.pc = "getDek", !.version = ver.version,
                                   !.input = SubSeq(dec.bytes, 6, Len(dec.bytes))]
        ELSE Fail(v, "unsupported rule mode")

\* getOrCreateDek after its lookup: the lookup's error is returned, otherwise
\* the clock is read next.
AfterDekLookup(w, r) ==
    IF r.err # "" THEN Fail(w, r.err)
    ELSE [w EXCEPT !.pc = "expiry", !.dek = r.dek]

\* Transform is called with the field and, unless it ends at once, looks the
\* DEK up.
TransformCall(p) ==
    /\ tr[p].pc = "transform"
    /\ \E in \in (IF isRead(tr[p]) THEN ReadInputs ELSE WriteInputs) :
        LET w == TransformEntry(tr[p], in)
        IN  IF w.pc # "getDek"
            THEN /\ tr' = [tr EXCEPT ![p] = w]
                 /\ UNCHANGED faults
            ELSE \E a \in GetDekVersion(w.ctx.KekName, w.ctx.Subject, w.version,
                                        getCryptor(w.ctx.Algorithm)) :
                    LET x == [w EXCEPT !.reqs = Append(@, Req("GetDek", w.version, a.st, Got(a)))]
                    IN  /\ tr' = [tr EXCEPT ![p] = AfterDekLookup(x, retrieveDekFromRegistry(a))]
                        /\ faults' = faults - (IF a.st = Fatal THEN 1 ELSE 0)
    /\ UNCHANGED <<now, keks, deks, left, produced, ruleVars, configureVars, kmsClients>>

\* Go's integer division, which rounds toward zero.
Quo(a, b) == IF a >= 0 THEN a \div b ELSE -((-a) \div b)

\* An expiry test that needs more than the full number of days.
isExpiredLate(w, t) ==
    /\ w.ctx.RuleMode # Read
    /\ w.ctx.ExpiryDays > 0
    /\ w.dek # Nil
    /\ Quo(t - w.dek[1].Ts, MillisInDay) > w.ctx.ExpiryDays

\* isExpired at clock value t.
isExpired(w, t) ==
    /\ w.ctx.RuleMode # Read
    /\ w.ctx.ExpiryDays > 0
    /\ w.dek # Nil
    /\ Quo(t - w.dek[1].Ts, MillisInDay) >= w.ctx.ExpiryDays

\* A version rule that steps over a version when it rotates.
NewVersionSkipping(w, expired) == IF expired THEN w.dek[1].Version + 2 ELSE 1

\* The version getOrCreateDek registers.
NewVersion(w, expired) == IF expired THEN w.dek[1].Version + 1 ELSE 1

\* A getOrCreateDek that wraps new key material under a shared KEK too.
ExpiryWrapsShared(p) ==
    /\ tr[p].pc = "expiry"
    /\ LET w == tr[p]
           e == isExpired(w, now)
           v == [w EXCEPT !.isExpired = e, !.clock = now]
       IN  tr' = [tr EXCEPT ![p] =
               IF w.dek = Nil \/ e THEN
                   IF isRead(w) THEN Fail(v, "no dek found during consume")
                   ELSE [v EXCEPT !.pc = "wrap", !.newVersion = NewVersion(w, e)]
               ELSE [v EXCEPT !.pc = "material"]]
    /\ UNCHANGED <<now, keks, deks, faults, left, produced, ruleVars, configureVars, kmsClients>>

\* getOrCreateDek reads the clock and decides: a DEK that is there and not
\* expired is used; a reader without a DEK fails; a writer makes a new DEK,
\* wrapping it first unless the KEK is shared.
Expiry(p) ==
    /\ tr[p].pc = "expiry"
    /\ LET w == tr[p]
           e == isExpired(w, now)
           v == [w EXCEPT !.isExpired = e, !.clock = now]
       IN  tr' = [tr EXCEPT ![p] =
               IF w.dek = Nil \/ e THEN
                   IF isRead(w) THEN Fail(v, "no dek found during consume")
                   ELSE [v EXCEPT !.pc = IF w.Kek[1].Shared THEN "regDek" ELSE "wrap",
                                  !.newVersion = NewVersion(w, e)]
               ELSE [v EXCEPT !.pc = "material"]]
    /\ UNCHANGED <<now, keks, deks, faults, left, produced, ruleVars, configureVars, kmsClients>>

\* registry.NewKeyData: fresh random key material.  No two draws give the
\* same bytes: the draw is named by who draws and for which version.
NewKeyData(p, version) == 16 * p + version

\* getAead up to the answer of registry.GetKMSClient: with a client for the
\* KEK's URL registered the caller has its handle; without one the caller is
\* about to have a client made and registered, and comes back to pc after.
GetAead(w, pc) ==
    LET client == GetKMSClient(kmsClients, KekURL(w.Kek[1]))
    IN  IF client = Nil
        THEN [w EXCEPT !.pc = pc, !.kmsCalls = @ + 1]
        ELSE [w EXCEPT !.primitive = client, !.kmsCalls = @ + 1]

\* getOrCreateDek gets the KEK's AEAD handle, draws new key material and
\* wraps it.
Wrap(p) ==
    /\ tr[p].pc = "wrap"
    /\ LET w == IF tr[p].primitive = Nil THEN GetAead(tr[p], "newClientWrap") ELSE tr[p]
           rawDek == NewKeyData(p, w.newVersion)
       IN  tr' = [tr EXCEPT ![p] =
                  IF w.pc # "wrap" THEN w
                  ELSE [w EXCEPT !.pc = "regDek",
                                 !.encryptedDek = Ptr(AeadWrap(w.primitive[1].url, rawDek))]]
    /\ UNCHANGED <<now, keks, deks, faults, left, produced, ruleVars, configureVars, kmsClients>>

\* registerKMSClient: the driver makes a client for the URL, the client is
\* registered and getAead returns its handle.
KmsRegister(p) ==
    /\ tr[p].pc \in {"newClientWrap", "newClientMaterial"}
    /\ LET w == tr[p]
           client == NewKMSClient(KekURL(w.Kek[1]), Len(kmsClients) + 1)
       IN  /\ kmsClients' = RegisterKMSClient(kmsClients, client)
           /\ tr' = [tr EXCEPT ![p] =
                  [w EXCEPT !.primitive = Ptr(client),
                            !.pc = IF w.pc = "newClientWrap" THEN "wrap" ELSE "material"]]
    /\ UNCHANGED <<now, keks, deks, faults, left, produced, ruleVars, configureVars>>

\* The end of createDek and what getOrCreateDek does with it: a failed
\* creation is fatal without a prior DEK and falls back to it otherwise.
AfterCreateDek(w, r) ==
    IF r.err # "" THEN
        IF w.dek = Nil THEN Fail(w, r.err) ELSE [w EXCEPT !.pc = "material"]
    ELSE [w EXCEPT !.pc = "material", !.dek = r.dek]

\* A createDek that fails when the registration gave no DEK.
AfterDekStoreNoRefetch(w, r) ==
    IF r.dek = Nil THEN AfterCreateDek(w, [dek |-> Nil, err |-> "dek registration failed"])
    ELSE AfterCreateDek(w, [dek |-> r.dek, err |-> ""])

\* createDek after the registration: no DEK in hand means a refetch.  The
\* registration's error is not examined.
AfterDekStore(w, r) ==
    IF r.dek = Nil THEN [w EXCEPT !.pc = "refetchDek"]
    ELSE AfterCreateDek(w, [dek |-> r.dek, err |-> ""])

\* A createDek that registers again when the refetch found no DEK.
AfterDekRefetchRetrying(w, r) ==
    IF r.err # "" THEN AfterCreateDek(w, [dek |-> Nil, err |-> r.err])
    ELSE IF r.dek = Nil THEN [w EXCEPT !.pc = "regDek"]
    ELSE AfterCreateDek(w, [dek |-> r.dek, err |-> ""])

\* createDek after the refetch: its error is returned; no DEK is an error.
AfterDekRefetch(w, r) ==
    IF r.err # "" THEN AfterCreateDek(w, [dek |-> Nil, err |-> r.err])
    ELSE IF r.dek = Nil THEN AfterCreateDek(w, [dek |-> Nil, err |-> "no dek found during produce"])
    ELSE AfterCreateDek(w, [dek |-> r.dek, err |-> ""])

\* createDek registers the new version.
DekRegister(p) ==
    /\ tr[p].pc = "regDek"
    /\ LET w == tr[p]
           enc == IF w.encryptedDek = Nil THEN <<>> ELSE EncodeToString(w.encryptedDek[1])
       IN  \E a \in RegisterDekVersion(w.ctx.KekName, w.ctx.Subject, w.newVersion,
                                       getCryptor(w.ctx.Algorithm), enc) :
               LET x == [w EXCEPT !.reqs = Append(@, Req("RegisterDek", w.newVersion, a.st, Got(a)))]
               IN  /\ tr' = [tr EXCEPT ![p] = AfterDekStore(x, storeDekToRegistry(a))]
                   /\ deks' = a.deks
                   /\ faults' = faults - (IF a.st = Fatal THEN 1 ELSE 0)
    /\ UNCHANGED <<now, keks, left, produced, ruleVars, configureVars, kmsClients>>

\* createDek fetches the version first asked for after a registration gave
\* no DEK.
DekRefetch(p) ==
    /\ tr[p].pc = "refetchDek"
    /\ LET w == tr[p]
       IN  \E a \in GetDekVersion(w.ctx.KekName, w.ctx.Subject, w.version,
                                  getCryptor(w.ctx.Algorithm)) :
               LET x == [w EXCEPT !.reqs = Append(@, Req("GetDek", w.version, a.st, Got(a)))]
               IN  /\ tr' = [tr EXCEPT ![p] = AfterDekRefetch(x, retrieveDekFromRegistry(a))]
                   /\ faults' = faults - (IF a.st = Fatal THEN 1 ELSE 0)
    /\ UNCHANGED <<now, keks, deks, left, produced, ruleVars, configureVars, kmsClients>>

\* A getOrCreateDek that caches something other than what the unwrapping gave.
ResolveKeyMaterialMiscached(w) ==
    LET dek == w.dek[1]
        enc == DecodeString(dek.EncryptedKeyMaterial)
        v == IF w.primitive = Nil THEN GetAead(w, "newClientMaterial") ELSE w
        raw == AeadUnwrap(v.primitive[1].url, enc.bytes)
    IN  IF dek.KeyMaterial # Nil THEN w
        ELSE IF v.pc # "material" THEN v
        ELSE IF ~enc.ok THEN Fail(v, "illegal base64 data")
        ELSE IF ~raw.ok THEN Fail(v, "dek decryption failed")
        ELSE [v EXCEPT !.dek = Ptr([dek EXCEPT !.KeyMaterial = Ptr(raw.raw + 1)])]

\* The end of getOrCreateDek: the DEK's raw key material, from the registry's
\* answer or unwrapped with the KEK's AEAD handle and cached on the DEK.  The
\* handle is got first when the call has none yet.
ResolveKeyMaterial(w) ==
    LET dek == w.dek[1]
        enc == DecodeString(dek.EncryptedKeyMaterial)
        v == IF w.primitive = Nil THEN GetAead(w, "newClientMaterial") ELSE w
        raw == AeadUnwrap(v.primitive[1].url, enc.bytes)
    IN  IF dek.KeyMaterial # Nil THEN w
        ELSE IF v.pc # "material" THEN v
        ELSE IF ~enc.ok THEN Fail(v, "illegal base64 data")
        ELSE IF ~raw.ok THEN Fail(v, "dek decryption failed")
        ELSE [v EXCEPT !.dek = Ptr([dek EXCEPT !.KeyMaterial = Ptr(raw.raw)])]

\* An output framed with the version the invocation meant to register.
WriteOutputNewVersion(w, nonce) ==
    LET dek == w.dek[1]
        ciphertext == CryptorEncrypt(getCryptor(w.ctx.Algorithm), dek.KeyMaterial[1],
                                     w.input, nonce)
        framed == IF isDekRotated(w) THEN prefixVersion(w.newVersion, ciphertext)
                  ELSE ciphertext
    IN  IF w.fieldType = TypeString THEN EncodeToString(framed) ELSE framed

\* The output of a write: the ciphertext, framed with the DEK's version when
\* the DEK is rotated, base64 for a string field.
WriteOutput(w, nonce) ==
    LET dek == w.dek[1]
        ciphertext == CryptorEncrypt(getCryptor(w.ctx.Algorithm), dek.KeyMaterial[1],
                                     w.input, nonce)
        framed == IF isDekRotated(w) THEN prefixVersion(dek.Version, ciphertext)
                  ELSE ciphertext
    IN  IF w.fieldType = TypeString THEN EncodeToString(framed) ELSE framed

\* A write's output as later readers find it, with the write's rule and the
\* DEK it used.
Message(w, out) ==
    [fieldType |-> w.fieldType, value |-> out, plain |-> w.fieldValue,
     KekName |-> w.ctx.KekName, Subject |-> w.ctx.Subject,
     Algorithm |-> w.ctx.Algorithm, ExpiryDays |-> w.ctx.ExpiryDays,
     version |-> w.dek[1].Version, key |-> w.dek[1].KeyMaterial[1]]

\* getOrCreateDek resolves the key material and Transform encrypts or
\* decrypts with it.
Material(p) ==
    /\ tr[p].pc = "material"
    /\ LET w == ResolveKeyMaterial(tr[p])
       IN  IF w.pc # "material"
           THEN /\ tr' = [tr EXCEPT ![p] = w]
                /\ UNCHANGED produced
           ELSE IF w.ctx.RuleMode = Write
           THEN \E nonce \in NonceSet :
                   LET out == WriteOutput(w, nonce)
                   IN  /\ tr' = [tr EXCEPT ![p] =
                              Return([w EXCEPT !.result = Ptr(out), !.used = w.dek])]
                       /\ produced' = produced \cup {Message(w, out)}
           ELSE LET d == CryptorDecrypt(getCryptor(w.ctx.Algorithm),
                                        w.dek[1].KeyMaterial[1], w.input)
                IN  /\ tr' = [tr EXCEPT ![p] =
                           IF d.ok
                           THEN Return([w EXCEPT !.result = Ptr(d.bytes), !.used = w.dek])
                           ELSE Fail(w, "decryption failed")]
                    /\ UNCHANGED produced
    /\ UNCHANGED <<now, keks, deks, faults, left, ruleVars, configureVars, kmsClients>>

\* Time passes.  The clock is looked at when getOrCreateDek reads it and when
\* the registry stamps a new DEK, so time is let pass only when a worker is
\* about to do one of the two.
Tick ==
    /\ \E p \in Workers : tr[p].pc \in {"expiry", "regDek"}
    /\ \E t \in ClockValues : t > now /\ now' = t
    /\ UNCHANGED <<keks, deks, faults, left, tr, produced, ruleVars, configureVars, kmsClients>>

\* Someone else deletes a record from the registry: a DEK, or a KEK that no
\* DEK is under.  A deletion shows in the answers that follow it, so it is
\* let happen only when a worker is about to fetch again.
RegistryDelete ==
    /\ \E p \in Workers : tr[p].pc \in {"refetchKek", "refetchDek"}
    /\ \/ \E d \in deks : deks' = deks \ {d} /\ UNCHANGED keks
       \/ \E k \in keks :
            /\ \A d \in deks : d.KekName # k.Name
            /\ keks' = keks \ {k}
            /\ UNCHANGED deks
    /\ UNCHANGED <<now, faults, left, tr, produced, ruleVars, configureVars, kmsClients>>

\* ----------------------------------------------------------------- Configure
ConfigKeys == {"k1", "k2"}
ConfigValues == {"a", "b"}
ClientConfigs == {"sr1", "sr2"}
\* The maps a Configure call can pass.
ConfigMaps == UNION {[D -> ConfigValues] : D \in SUBSET ConfigKeys}
\* The orders a range over a map with key set D can visit its keys in.
Orders(D) ==
    {o \in [1..Cardinality(D) -> D] : \A i, j \in 1..Cardinality(D) : o[i] = o[j] => i = j}

\* A loop that takes the value of the latest call for a key already set.
RECURSIVE MergeConfigOverwrite(_, _, _)
MergeConfigOverwrite(cur, config, order) ==
    IF order = <<>> THEN [Config |-> cur, err |-> ""]
    ELSE LET key == Head(order)
         IN  MergeConfigOverwrite([k \in DOMAIN cur \cup {key} |->
                                      IF k = key THEN config[key] ELSE cur[k]],
                                  config, Tail(order))

\* The loop of Configure over the keys of config in the order given: a key
\* already set to another value ends it with an error, a new key is added.
RECURSIVE MergeConfig(_, _, _)
MergeConfig(cur, config, order) ==
    IF order = <<>> THEN [Config |-> cur, err |-> ""]
    ELSE LET key == Head(order)
         IN  IF key \in DOMAIN cur
             THEN IF cur[key] # config[key]
                  THEN [Config |-> cur, err |-> "rule config key already set: " \o key]
                  ELSE MergeConfig(cur, config, Tail(order))
             ELSE MergeConfig([k \in DOMAIN cur \cup {key} |->
                                  IF k = key THEN config[key] ELSE cur[k]],
                              config, Tail(order))

\* Executor.Configure(clientConfig, config): config is Nil or a pointer to a
\* map; newClientOk tells whether deks.NewClient succeeds; order is the order
\* the range visits the keys in.
Configure(clientConfig, config, newClientOk, order) ==
    /\ calls < MaxConfigureCalls
    /\ calls' = calls + 1
    /\ LET before == [Config |-> Config, Client |-> Client]
           done(cfg, cl, e) ==
               /\ Config' = cfg
               /\ Client' = cl
               /\ last' = [clientConfig |-> clientConfig, config |-> config,
                           before |-> before, err |-> e]
       IN  IF Client # Nil /\ Client[1] # clientConfig
           THEN done(Config, Client, "executor already configured")
           ELSE IF Client = Nil /\ ~newClientOk
           THEN done(Config, Client, "new client failed")
           ELSE IF Config # Nil
           THEN LET m == MergeConfig(Config[1], IF config = Nil THEN <<>> ELSE config[1], order)
                IN  done(Ptr(m.Config), Ptr(clientConfig), m.err)
           ELSE IF config # Nil
           THEN done(config, Ptr(clientConfig), "")
           ELSE done(Ptr(<<>>), Ptr(clientConfig), "")
    /\ UNCHANGED <<now, keks, deks, faults, left, tr, produced, ruleVars, kmsClients>>

\* ------------------------------------------------------------ specifications
\* The registry an invocation can find: empty, or holding the KEK already,
\* registered by someone else, shared or not.
InitialKeks ==
    {{}} \cup {{[Name |-> "kek1", KmsType |-> "kmsA", KmsKeyID |-> "id1", Shared |-> s]} :
                  s \in BOOLEAN}

NoCall == [clientConfig |-> "", config |-> Nil,
           before |-> [Config |-> Nil, Client |-> Nil], err |-> ""]

\* A configured executor with its workers idle, on a registry without DEKs.
Configured ==
    /\ now = 0
    /\ deks = {}
    /\ tr = [p \in Workers |-> Idle]
    /\ produced = {}
    /\ Config = Ptr(<<>>)
    /\ Client = Ptr("sr1")
    /\ calls = 0
    /\ last = NoCall
    /\ kmsClients = <<>>

\* The rules that name the master key kmsA://id1.
RulesOfOneKey == {r \in Rules : r.KmsType = "kmsA" /\ r.KmsKeyID = "id1"}

\* Two clients of any role, one invocation each, under rules that differ in
\* the expiry at most; the registry may fail once.
Init ==
    /\ Configured
    /\ keks \in InitialKeks
    /\ faults = MaxFaults
    /\ left = [p \in Workers |-> 1]
    /\ rule \in [Workers -> {r \in RulesOfOneKey : r.Algorithm = Aes256Gcm}]
    /\ role = [p \in Workers |-> RuleModes]

Next ==
    \/ \E p \in Workers :
        \/ NewTransform(p)
        \/ KekRegister(p)
        \/ KekRefetch(p)
        \/ TransformCall(p)
        \/ Expiry(p)
        \/ Wrap(p)
        \/ KmsRegister(p)
        \/ DekRegister(p)
        \/ DekRefetch(p)
        \/ Material(p)
    \/ Tick

Spec == Init /\ [][Next]_vars

\* An executor as NewExecutorWithClock leaves it, then configured again and
\* again.
InitConfigure ==
    /\ now = 0
    /\ keks = {}
    /\ deks = {}
    /\ faults = 0
    /\ left = [p \in Workers |-> 0]
    /\ tr = [p \in Workers |-> Idle]
    /\ produced = {}
    /\ rule = [p \in Workers |-> CHOOSE r \in Rules : TRUE]
    /\ role = [p \in Workers |-> {}]
    /\ Config = Nil
    /\ Client = Nil
    /\ calls = 0
    /\ last = NoCall
    /\ kmsClients = <<>>

NextConfigure ==
    \E clientConfig \in ClientConfigs, config \in {Nil} \cup {Ptr(m) : m \in ConfigMaps},
       newClientOk \in BOOLEAN :
        \E order \in Orders(IF config = Nil THEN {} ELSE DOMAIN config[1]) :
            Configure(clientConfig, config, newClientOk, order)

SpecConfigure == InitConfigure /\ [][NextConfigure]_vars

\* A writer and a reader, each under a rule of any algorithm and expiry, on a
\* registry that never fails.
InitRoundTrip ==
    /\ Configured
    /\ keks \in InitialKeks
    /\ faults = 0
    /\ left = [p \in Workers |-> MaxInvocations]
    /\ rule \in [Workers -> RulesOfOneKey]
    /\ role = [p \in Workers |-> IF p = 1 THEN {Write} ELSE {Read}]

\* With one writer no registration meets a conflict.
NextRoundTrip ==
    \/ \E p \in Workers :
        \/ NewTransform(p)
        \/ KekRegister(p)
        \/ TransformCall(p)
        \/ Expiry(p)
        \/ Wrap(p)
        \/ KmsRegister(p)
        \/ DekRegister(p)
        \/ Material(p)
    \/ Tick

SpecRoundTrip == InitRoundTrip /\ [][NextRoundTrip]_vars

\* Two writers under one rule, each invoked again and again while days pass,
\* on a registry that never fails.
InitRotate ==
    /\ Configured
    /\ keks \in InitialKeks
    /\ faults = 0
    /\ left = [p \in Workers |-> MaxInvocations]
    /\ rule \in [Workers -> {r \in RulesOfOneKey : r.Algorithm = Aes256Gcm}]
    /\ \A p, q \in Workers : rule[p] = rule[q]
    /\ role = [p \in Workers |-> {Write}]

SpecRotate == InitRotate /\ [][Next]_vars

\* Two writers under one rotating or fixed rule, the first invoked again, on
\* a registry that holds the KEK and may fail once.
InitFallback ==
    /\ Configured
    /\ keks \in InitialKeks \ {{}}
    /\ faults = MaxFaults
    /\ left = [p \in Workers |-> IF p = 1 THEN MaxInvocations ELSE 1]
    /\ rule \in [Workers -> {r \in RulesOfOneKey : r.Algorithm = Aes256Gcm}]
    /\ \A p, q \in Workers : rule[p] = rule[q]
    /\ role = [p \in Workers |-> {Write}]

SpecFallback == InitFallback /\ [][Next]_vars

\* A client under the rule of the master key kmsA://id1 and a client under a
\* rule with any KMS type and key ID, or none, on a registry that never
\* fails.
InitMismatch ==
    /\ Configured
    /\ keks \in InitialKeks
    /\ faults = 0
    /\ left = [p \in Workers |-> 1]
    /\ rule \in [Workers -> {r \in Rules : r.Algorithm = Aes256Gcm /\ r.ExpiryDays = 0}]
    /\ rule[1] \in RulesOfOneKey
    /\ role = [p \in Workers |-> RuleModes]

SpecMismatch == InitMismatch /\ [][Next]_vars

\* The clock values around the day boundaries, the timestamps a DEK can carry
\* and the expiry days a rule can ask for when isExpired is looked at alone.
ExpiryInstants ==
    {t \in {d * MillisInDay + e : d \in 0..(MaxDays + 1), e \in {-1, 0, 1}} : t >= 0}
ExpiryStamps == {0, 1, MillisInDay}
ExpiryDaysAsked == 0..(MaxExpiryDays + 1)

\* The DEK record the registry made at clock value ts for the one subject.
StampedDek(ts) ==
    [KekName |-> "kek1", Subject |-> "topic-value", Version |-> 1,
     Algorithm |-> Aes256Gcm, Ts |-> ts,
     EncryptedKeyMaterial |-> EncodeToString(AeadWrap(<<"kmsA", "id1">>, 129)),
     KeyMaterial |-> Ptr(129)]

\* One invocation, in any mode and with any expiry days, that has fetched a
\* DEK stamped at some instant, or found none, and is about to read a clock
\* that stands at some instant.
InitExpiry ==
    /\ now \in ExpiryInstants
    /\ keks = {[Name |-> "kek1", KmsType |-> "kmsA", KmsKeyID |-> "id1", Shared |-> TRUE]}
    /\ deks \in {{}} \cup {{StampedDek(ts)} : ts \in ExpiryStamps}
    /\ faults = 0
    /\ left = [p \in Workers |-> 0]
    /\ produced = {}
    /\ \E mode \in RuleModes, days \in ExpiryDaysAsked :
        /\ rule = [p \in Workers |->
                     [KekName |-> "kek1", KmsType |-> "kmsA", KmsKeyID |-> "id1",
                      Algorithm |-> Aes256Gcm, ExpiryDays |-> days]]
        /\ role = [p \in Workers |-> {mode}]
        /\ tr = [p \in Workers |->
                   IF p # 1 THEN Idle
                   ELSE [Idle EXCEPT
                           !.pc = "expiry",
                           !.ctx = [RuleMode |-> mode, KekName |-> "kek1",
                                    Subject |-> "topic-value", Algorithm |-> Aes256Gcm,
                                    ExpiryDays |-> days],
                           !.Kek = Ptr(CHOOSE k \in keks : TRUE),
                           !.fieldType = TypeBytes,
                           !.version = IF days > 0 THEN -1 ELSE 1,
                           !.dek = IF deks = {} THEN Nil ELSE Ptr(CHOOSE d \in deks : TRUE),
                           !.reqs = <<Req("GetKek", 0, "200", 0),
                                      Req("GetDek", IF days > 0 THEN -1 ELSE 1,
                                          IF deks = {} THEN "404" ELSE "200",
                                          IF deks = {} THEN 0 ELSE 1)>>]]
    /\ Config = Ptr(<<>>)
    /\ Client = Ptr("sr1")
    /\ calls = 0
    /\ last = NoCall
    /\ kmsClients = <<>>

NextExpiry == \E p \in Workers : Expiry(p)

SpecExpiry == InitExpiry /\ [][NextExpiry]_vars

\* Two writers under one rule, one invocation each, on a registry that may
\* hold the KEK and a first DEK under it, may fail once, and has its records
\* deleted by others at any time.
InitRetry ==
    /\ now = 0
    /\ keks \in InitialKeks
    /\ deks \in {{}} \cup {{StampedDek(0)} : k \in {x \in keks : x.Shared}}
    /\ faults = MaxFaults
    /\ left = [p \in Workers |-> 1]
    /\ tr = [p \in Workers |-> Idle]
    /\ produced = {}
    /\ rule \in [Workers -> {r \in RulesOfOneKey : r.Algorithm = Aes256Gcm}]
    /\ \A p, q \in Workers : rule[p] = rule[q]
    /\ role = [p \in Workers |-> {Write}]
    /\ Config = Ptr(<<>>)
    /\ Client = Ptr("sr1")
    /\ calls = 0
    /\ last = NoCall
    /\ kmsClients = <<>>

NextRetry == Next \/ RegistryDelete

SpecRetry == InitRetry /\ [][NextRetry]_vars

\* The versions and ciphertexts framed on their own: versions at the edges of
\* each of the four bytes, up to the largest a TLC integer holds, and
\* every sequence of a few byte values up to MaxFrameLen long.
FrameVersions == {0, 1, 255, 256, 65535, 65536, 16777215, 16777216, 2147483647}
FrameByteValues == {0, 7, 255}
FrameCiphertexts == UNION {[1..n -> FrameByteValues] : n \in 0..MaxFrameLen}

\* A write that has encrypted its field under a DEK of some version and is
\* about to frame the ciphertext.
InitFrame ==
    /\ now = 0
    /\ keks = {}
    /\ deks = {}
    /\ faults = 0
    /\ left = [p \in Workers |-> 0]
    /\ produced = {}
    /\ rule = [p \in Workers |-> CHOOSE r \in RulesOfOneKey : r.ExpiryDays > 0]
    /\ role = [p \in Workers |-> {Write}]
    /\ \E v \in FrameVersions, c \in FrameCiphertexts :
        tr = [p \in Workers |->
                IF p # 1 THEN Idle
                ELSE [Idle EXCEPT !.pc = "frame", !.newVersion = v, !.input = c]]
    /\ Config = Ptr(<<>>)
    /\ Client = Ptr("sr1")
    /\ calls = 0
    /\ last = NoCall
    /\ kmsClients = <<>>

\* prefixVersion is applied to the version and the ciphertext.
PrefixVersion(p) ==
    /\ tr[p].pc = "frame"
    /\ tr' = [tr EXCEPT ![p] =
                [@ EXCEPT !.pc = "framed",
                          !.result = Ptr(prefixVersion(tr[p].newVersion, tr[p].input))]]
    /\ UNCHANGED <<now, keks, deks, faults, left, produced, ruleVars, configureVars, kmsClients>>

\* extractVersion is applied to the framed bytes and the first 5 bytes are
\* dropped, as a read does.
ExtractVersion(p) ==
    /\ tr[p].pc = "framed"
    /\ LET framed == tr[p].result[1]
           head == extractVersion(framed)
       IN  tr' = [tr EXCEPT ![p] =
                    IF head.kind # "ok" THEN [@ EXCEPT !.pc = "unframed", !.err = head.kind]
                    ELSE [@ EXCEPT !.pc = "unframed", !.version = head.version,
                                   !.fieldValue = SubSeq(framed, 6, Len(framed))]]
    /\ UNCHANGED <<now, keks, deks, faults, left, produced, ruleVars, configureVars, kmsClients>>

NextFrame == \E p \in Workers : PrefixVersion(p) \/ ExtractVersion(p)

SpecFrame == InitFrame /\ [][NextFrame]_vars

\* ------------------------------------------------------------------- claims
\* No registry request of the invocation was answered with a fatal failure.
NoFault(w) == \A i \in 1..Len(w.reqs) : w.reqs[i].st # Fatal

\* The invocation read message m under the rule m was written under.
ReadBack(w, m) ==
    /\ w.pc = "done"
    /\ w.ctx.RuleMode = Read
    /\ w.msg = Ptr(m)
    /\ w.ctx.KekName = m.KekName
    /\ w.ctx.Subject = m.Subject
    /\ w.ctx.Algorithm = m.Algorithm
    /\ w.ctx.ExpiryDays = m.ExpiryDays

\* C1: a read of a write's output under the same rule parameters and
\* subject, on a registry that answers, returns the value that was written,
\* for each algorithm, with and without rotation, for strings and bytes.
C1_RoundTrip ==
    \A p \in Workers : \A m \in produced :
        ReadBack(tr[p], m) /\ NoFault(tr[p])
            => tr[p].err = "" /\ tr[p].result = Ptr(m.plain)

\* C1 witness: a string written under rotation with DEK version 1 is read
\* back after the DEK has been rotated.
C1_Witness ==
    \E p \in Workers : \E m \in produced :
        /\ ReadBack(tr[p], m)
        /\ tr[p].result = Ptr(m.plain)
        /\ m.fieldType = TypeString
        /\ m.ExpiryDays > 0
        /\ m.value # m.plain
        /\ \E d \in deks : d.Version > m.version

\* The requests of the invocation that registered a KEK or a DEK.
Registrations(w) ==
    {i \in 1..Len(w.reqs) : w.reqs[i].op \in {"RegisterKek", "RegisterDek"}}

\* The invocation's last registry request was a lookup that found no record.
LookupFoundNone(w) ==
    /\ w.reqs # <<>>
    /\ w.reqs[Len(w.reqs)].op \in {"GetKek", "GetDek"}
    /\ w.reqs[Len(w.reqs)].st = "404"

\* C2: no step of a read-mode invocation issues a KEK or DEK registration or
\* changes the registry's KEK and DEK records, and a read-mode invocation
\* whose KEK or DEK lookup found no record ends in failure without a result.
C2_ReaderCreatesNothing ==
    [][\A p \in Workers :
        (tr'[p] # tr[p] /\ isRead(tr'[p])) =>
            /\ Registrations(tr'[p]) = {}
            /\ keks' = keks /\ deks' = deks
            /\ (tr'[p].pc = "done" /\ LookupFoundNone(tr'[p]))
                   => (tr'[p].err # "" /\ tr'[p].result = Nil)]_vars

\* C2 witness: a reader handed a written message has looked the DEK up, found
\* no record and failed.
C2_Witness ==
    \E p \in Workers :
        /\ tr[p].pc = "done"
        /\ isRead(tr[p])
        /\ LookupFoundNone(tr[p])
        /\ tr[p].reqs[Len(tr[p].reqs)].op = "GetDek"
        /\ tr[p].err = "no dek found during consume"
        /\ tr[p].msg # Nil

\* The answers the invocation got to its KEK requests, in order.
IsKekReq(r) == r.op \in {"GetKek", "RegisterKek"}
KekReqs(w) == SelectSeq(w.reqs, IsKekReq)
KekAnswers(w) == [i \in 1..Len(KekReqs(w)) |-> KekReqs(w)[i].st]

\* The errors getOrCreateKek makes itself.
KekErrors ==
    {"no kek found during consume", "no kms type found during produce",
     "no kms key id found during produce", "no kek found during produce",
     "kms type differs", "kms key id differs"}

\* C3: writers that name the same KEK, KMS type and KMS key ID and meet no
\* registry failure leave at most one KEK record of the name; each one's
\* getOrCreateKek returns that record without error, after a found lookup,
\* after its own registration, or after a conflict and a single refetch.
C3_KekRace ==
    /\ \A k1, k2 \in keks : k1.Name = k2.Name => k1 = k2
    /\ \A p \in Workers :
        LET w == tr[p]
        IN  (w.pc # "idle" /\ w.ctx.RuleMode = Write /\ NoFault(w)) =>
                /\ w.pc = "regKek" => KekAnswers(w) = <<"404">>
                /\ w.pc = "refetchKek" => KekAnswers(w) = <<"404", "409">>
                /\ w.pc \notin {"regKek", "refetchKek"} =>
                    /\ KekAnswers(w) \in {<<"200">>, <<"404", "200">>,
                                          <<"404", "409", "200">>}
                    /\ w.err \notin KekErrors
                    /\ w.pc # "done" => (w.Kek # Nil /\ w.Kek[1] \in keks)

\* C3 witness: two writers found no KEK; one registered it, the other met
\* the conflict, fetched the winner's record and holds it.
C3_Witness ==
    \E p, q \in Workers :
        /\ tr[p].ctx.RuleMode = Write /\ tr[q].ctx.RuleMode = Write
        /\ KekAnswers(tr[p]) = <<"404", "200">>
        /\ KekAnswers(tr[q]) = <<"404", "409", "200">>
        /\ tr[p].pc = "transform" /\ tr[q].pc = "transform"
        /\ tr[p].Kek = tr[q].Kek
        /\ keks = {tr[q].Kek[1]}

\* The places in the invocation's requests of a DEK registration answered st.
DekRegistrations(w, st) ==
    {i \in 1..Len(w.reqs) : w.reqs[i].op = "RegisterDek" /\ w.reqs[i].st = st}

\* The version the invocation asked getOrCreateDek for: that of its first
\* DEK lookup.
RequestedVersion(w) ==
    LET i == CHOOSE j \in 1..Len(w.reqs) :
                 /\ w.reqs[j].op = "GetDek"
                 /\ \A k \in 1..(j - 1) : w.reqs[k].op # "GetDek"
    IN  w.reqs[i].ver

\* C4 (as the code has it): a writer whose DEK registration met a conflict,
\* on a registry that does not fail, fetches the version it first asked for
\* and goes on with the DEK that lookup returns, whose version is at least
\* the one it tried to register and is that very version when the DEK is
\* not rotated; it does not fail and encrypts with the DEK it fetched.
C4_DekRace ==
    \A p \in Workers :
        LET w == tr[p]
        IN  \A i \in DekRegistrations(w, "409") :
                NoFault(w) =>
                    \/ w.pc = "refetchDek" /\ i = Len(w.reqs)
                    \/ /\ i + 1 = Len(w.reqs)
                       /\ w.reqs[i + 1].op = "GetDek"
                       /\ w.reqs[i + 1].ver = RequestedVersion(w)
                       /\ w.reqs[i + 1].st = "200"
                       /\ w.reqs[i + 1].got >= w.reqs[i].ver
                       /\ ~isDekRotated(w) => w.reqs[i + 1].got = w.reqs[i].ver
                       /\ w.pc \in {"material", "done"}
                       /\ w.pc = "material" => w.dek[1].Version = w.reqs[i + 1].got
                       /\ w.pc = "done" =>
                            /\ w.err = ""
                            /\ w.used # Nil
                            /\ w.used[1].Version = w.reqs[i + 1].got

\* C4 witness: two writers found version 1 expired and both tried to register
\* version 2; the one that met the conflict encrypted with the version 2 the
\* other had registered.
C4_Witness ==
    \E p, q \in Workers :
        /\ tr[p].pc = "done" /\ tr[q].pc = "done"
        /\ \E i \in DekRegistrations(tr[p], "409") : tr[p].reqs[i].ver = 2
        /\ \E i \in DekRegistrations(tr[q], "200") : tr[q].reqs[i].ver = 2
        /\ tr[p].err = "" /\ tr[q].err = ""
        /\ tr[p].used # Nil /\ tr[q].used # Nil
        /\ tr[p].used[1].Version = 2 /\ tr[q].used[1].Version = 2

\* C4 as stated: a writer whose registration met a conflict goes on with the
\* DEK the winner created, the version it tried to register itself.
C4_Original ==
    \A p \in Workers :
        \A i \in DekRegistrations(tr[p], "409") :
            (tr[p].pc = "done" /\ NoFault(tr[p])) =>
                /\ tr[p].err = ""
                /\ tr[p].used # Nil
                /\ tr[p].used[1].Version = tr[p].reqs[i].ver

\* The versions the registry holds of one (KEK name, subject, algorithm).
VersionsOf(kekName, subject, algorithm) ==
    {d.Version : d \in DeksOf(deks, kekName, subject, algorithm)}

\* The invocation is about to register, or has asked to register, version v.
Registers(w, v) ==
    \/ w.pc \in {"wrap", "regDek"} /\ w.newVersion = v
    \/ \E i \in 1..Len(w.reqs) : w.reqs[i].op = "RegisterDek" /\ w.reqs[i].ver = v

\* C5: the DEK versions the registry holds of a (KEK name, subject,
\* algorithm) are 1..n, one record each; an invocation registers version
\* v + 1 only after its lookup returned version v and, with expiryDays > 0,
\* the clock it read was at least expiryDays days past that DEK's timestamp;
\* with expiryDays = 0 it registers version 1 only.
C5_RotationVersions ==
    /\ \A k \in KekNames, s \in Subjects, a \in {getCryptor(x) : x \in Algorithms} :
        /\ VersionsOf(k, s, a) = 1..Cardinality(VersionsOf(k, s, a))
        /\ \A d, e \in DeksOf(deks, k, s, a) : d.Version = e.Version => d = e
    /\ \A p \in Workers : \A v \in -1..(2 * MaxInvocations + 2) :
        Registers(tr[p], v) =>
            /\ v >= 1
            /\ ~isDekRotated(tr[p]) => v = 1
            /\ v > 1 =>
                /\ tr[p].ctx.ExpiryDays > 0
                /\ \E i \in 1..Len(tr[p].reqs) :
                    /\ tr[p].reqs[i].op = "GetDek"
                    /\ tr[p].reqs[i].st = "200"
                    /\ tr[p].reqs[i].got = v - 1
                    /\ \A j \in 1..(i - 1) : tr[p].reqs[j].op # "GetDek"
            /\ (v > 1 /\ tr[p].pc \in {"wrap", "regDek"}) =>
                /\ tr[p].isExpired
                /\ tr[p].dek # Nil
                /\ tr[p].dek[1].Version = v - 1
                /\ tr[p].clock - tr[p].dek[1].Ts >= tr[p].ctx.ExpiryDays * MillisInDay

\* C5 witness: the registry holds versions 1, 2 and 3, and the writer that
\* registered version 3 had fetched version 2.
C5_Witness ==
    \E p \in Workers :
        /\ \E d \in deks : VersionsOf(d.KekName, d.Subject, d.Algorithm) = {1, 2, 3}
        /\ \E i \in DekRegistrations(tr[p], "200") : tr[p].reqs[i].ver = 3
        /\ \E i \in 1..Len(tr[p].reqs) :
            tr[p].reqs[i].op = "GetDek" /\ tr[p].reqs[i].got = 2

\* The bytes a written message carries: the field itself, or what its base64
\* text decodes to.
Carried(m) ==
    IF m.fieldType = TypeString THEN DecodeString(m.value).bytes ELSE m.value

\* The raw key of a DEK record as a holder of its KEK gets it.
RawKeyOf(d) ==
    IF d.KeyMaterial # Nil THEN d.KeyMaterial[1]
    ELSE LET kek == CHOOSE k \in keks : k.Name = d.KekName
         IN  AeadUnwrap(KekURL(kek), DecodeString(d.EncryptedKeyMaterial).bytes).raw

\* C6: every output written under rotation starts with the 5-byte header of
\* the version of the DEK whose key encrypted it: the header decodes to a
\* version the registry holds, and what follows the header decrypts under
\* that version's key to the value written.
C6_HeaderVersion ==
    \A m \in produced :
        m.ExpiryDays > 0 =>
            LET bytes == Carried(m)
                head == extractVersion(bytes)
            IN  /\ Len(bytes) > 5
                /\ head.kind = "ok"
                /\ head.version = m.version
                /\ \E d \in DeksOf(deks, m.KekName, m.Subject, getCryptor(m.Algorithm)) :
                    /\ d.Version = head.version
                    /\ RawKeyOf(d) = m.key
                    /\ CryptorDecrypt(d.Algorithm, RawKeyOf(d),
                                      SubSeq(bytes, 6, Len(bytes)))
                           = [ok |-> TRUE, bytes |-> m.plain]

\* C6 witness: with expiryDays = 1, a write at day 0 and a write at day 2
\* used DEK versions 1 and 2, and each output carries its own version.
C6_Witness ==
    /\ now = 2 * MillisInDay
    /\ \E m1, m2 \in produced :
        /\ m1.ExpiryDays = 1 /\ m2.ExpiryDays = 1
        /\ m1.version = 1 /\ m2.version = 2
        /\ extractVersion(Carried(m1)).version = 1
        /\ extractVersion(Carried(m2)).version = 2
    /\ \E d1, d2 \in deks :
        /\ d1.Version = 1 /\ d1.Ts = 0
        /\ d2.Version = 2 /\ d2.Ts = 2 * MillisInDay

\* Rule r gives a KMS type or a KMS key ID that is not KEK k's.
Differs(r, k) ==
    \/ r.KmsType # "" /\ r.KmsType # k.KmsType
    \/ r.KmsKeyID # "" /\ r.KmsKeyID # k.KmsKeyID

\* The invocation's getOrCreateKek got KEK k from the registry.
Resolved(w, k) ==
    /\ KekReqs(w) # <<>>
    /\ KekReqs(w)[Len(KekReqs(w))].st = "200"
    /\ k \in keks
    /\ k.Name = w.ctx.KekName

\* C7: an invocation whose rule gives a KMS type or key ID other than that
\* of the KEK the registry returned, on lookup, on registration or on the
\* refetch after a conflict, has failed with the mismatch, in any mode, and
\* has made no DEK request and no KMS call; an invocation that goes on past
\* getOrCreateKek holds a KEK its rule does not differ from.
C7_KekMismatch ==
    \A p \in Workers : \A k \in keks :
        LET w == tr[p]
        IN  /\ (Resolved(w, k) /\ Differs(rule[p], k)) =>
                /\ w.pc = "done"
                /\ w.err \in {"kms type differs", "kms key id differs"}
                /\ w.result = Nil
                /\ w.reqs = KekReqs(w)
                /\ w.kmsCalls = 0
            /\ (w.Kek = Ptr(k)) => ~Differs(rule[p], k)

\* C7 witness: a writer met a conflict on registering the KEK, fetched the
\* KEK another had registered under another KMS key, and failed.
C7_Witness ==
    \E p \in Workers : \E k \in keks :
        /\ tr[p].ctx.RuleMode = Write
        /\ KekAnswers(tr[p]) = <<"404", "409", "200">>
        /\ Differs(rule[p], k)
        /\ tr[p].pc = "done"
        /\ tr[p].err \in {"kms type differs", "kms key id differs"}
        /\ tr[p].kmsCalls = 0

\* The version of the DEK the invocation's first lookup returned, 0 for none.
PriorVersion(w) ==
    LET i == CHOOSE j \in 1..Len(w.reqs) :
                 /\ w.reqs[j].op = "GetDek"
                 /\ \A k \in 1..(j - 1) : w.reqs[k].op # "GetDek"
    IN  w.reqs[i].got

\* C8 as stated: a writer whose DEK registration failed for a reason other
\* than a conflict goes on with the prior DEK it had fetched, and fails when
\* it had fetched none.
C8_Original ==
    \A p \in Workers :
        LET w == tr[p]
        IN  (DekRegistrations(w, Fatal) # {} /\ w.pc \in {"material", "done"}) =>
                IF PriorVersion(w) = 0
                THEN w.pc = "done" /\ w.err # "" /\ w.result = Nil
                ELSE /\ w.pc = "material" => w.dek[1].Version = PriorVersion(w)
                     /\ w.pc = "done" =>
                            /\ w.err = ""
                            /\ w.used # Nil
                            /\ w.used[1].Version = PriorVersion(w)

\* C9 as stated: a KEK lookup or KEK registration answered with a failure
\* that is neither 404 nor 409 ends the invocation with that failure, and no
\* registry request follows it.
C9_Original ==
    \A p \in Workers :
        LET w == tr[p]
        IN  \A i \in 1..Len(w.reqs) :
                (IsKekReq(w.reqs[i]) /\ w.reqs[i].st = Fatal) =>
                    /\ i = Len(w.reqs)
                    /\ w.pc = "done"
                    /\ w.err = "rest error " \o Fatal

\* The rule config the last Configure call found and the one it was given,
\* as maps; an executor without a Config and a call without one have none.
ConfigBefore == IF last.before.Config = Nil THEN <<>> ELSE last.before.Config[1]
ConfigGiven == IF last.config = Nil THEN <<>> ELSE last.config[1]
ConfigNow == IF Config = Nil THEN <<>> ELSE Config[1]

\* The last call gave another value for a key that was set.
Conflicting ==
    \E k \in DOMAIN ConfigGiven \cap DOMAIN ConfigBefore : ConfigGiven[k] # ConfigBefore[k]

\* The last call ended without error and the config holds what it was given.
Merged ==
    /\ last.err = ""
    /\ Config # Nil
    /\ DOMAIN ConfigNow = DOMAIN ConfigBefore \cup DOMAIN ConfigGiven
    /\ \A k \in DOMAIN ConfigGiven : ConfigNow[k] = ConfigGiven[k]

\* C10 (as the code has it): a Configure call leaves every key that was set
\* with the value it had; a call that gives another value for a key that was
\* set returns an error; a call that gives only new keys or equal values
\* succeeds and adds the new keys when it names the client configuration the
\* executor has, or when the executor has no client yet and the client can
\* be made, and otherwise returns an error and adds nothing.
C10_WriteOnce ==
    calls > 0 =>
        /\ \A k \in DOMAIN ConfigBefore :
            k \in DOMAIN ConfigNow /\ ConfigNow[k] = ConfigBefore[k]
        /\ Conflicting => last.err # ""
        /\ ~Conflicting =>
            IF last.before.Client # Nil
            THEN IF last.before.Client[1] = last.clientConfig
                 THEN Merged
                 ELSE last.err = "executor already configured" /\ Config = last.before.Config
            ELSE \/ Merged
                 \/ last.err = "new client failed" /\ Config = last.before.Config

\* C10 witness: a call with the executor's client configuration gave an
\* equal value for a key that was set and a new key, and the new key was
\* added.
C10_Witness ==
    /\ calls > 1
    /\ last.err = ""
    /\ \E k \in DOMAIN ConfigGiven \cap DOMAIN ConfigBefore : ConfigGiven[k] = ConfigBefore[k]
    /\ \E k \in DOMAIN ConfigGiven \ DOMAIN ConfigBefore : ConfigNow[k] = ConfigGiven[k]
    /\ ~Conflicting

\* C10 as stated: set keys keep their value, a call with another value for
\* a set key returns an error, and every call with only new keys or equal
\* values succeeds and adds the new keys.
C10_Original ==
    calls > 0 =>
        /\ \A k \in DOMAIN ConfigBefore :
            k \in DOMAIN ConfigNow /\ ConfigNow[k] = ConfigBefore[k]
        /\ Conflicting => last.err # ""
        /\ ~Conflicting => Merged

\* The bytes a read takes its frame from: the field itself, or what its
\* base64 text decodes to.
FrameBytes(in) ==
    IF in.fieldType = TypeString THEN DecodeString(in.value).bytes ELSE in.value

\* The bytes do not begin with a well-formed 5-byte frame.
NoFrame(bytes) == Len(bytes) < 5 \/ bytes[1] # MagicByteV0

\* C11 as stated: a read under rotation of a string or bytes field that does
\* not begin with a well-formed frame returns an error; Transform does not
\* crash and does not go on to a DEK lookup.
C11_Original ==
    \A p \in Workers :
        (tr[p].pc = "transform" /\ isRead(tr[p]) /\ isDekRotated(tr[p])) =>
            \A in \in ReadInputs :
                (in.fieldType \in {TypeBytes, TypeString} /\ NoFrame(FrameBytes(in))) =>
                    /\ TransformEntry(tr[p], in).pc = "done"
                    /\ TransformEntry(tr[p], in).err # ""
                    /\ TransformEntry(tr[p], in).reqs = tr[p].reqs

\* C12 as stated: handed a field whose type is neither string nor bytes,
\* Transform ends with an error and no result, in write mode and in read
\* mode.
C12_Original ==
    \A p \in Workers :
        (tr[p].pc = "transform" /\ tr[p].ctx.RuleMode \in {Write, Read}) =>
            \A in \in (IF isRead(tr[p]) THEN ReadInputs ELSE WriteInputs) :
                in.fieldType \notin {TypeString, TypeBytes} =>
                    /\ TransformEntry(tr[p], in).pc = "done"
                    /\ TransformEntry(tr[p], in).err # ""
                    /\ TransformEntry(tr[p], in).result = Nil

\* The registered KMS clients that serve a URL.
ClientsFor(url) == {i \in 1..Len(kmsClients) : kmsClients[i].url = url}

\* C13 as stated: however the callers of getKMSClient for one URL interleave,
\* one client at most is registered for the URL, and the handle a caller
\* holds is that of the registered client.
C13_Original ==
    /\ \A i, j \in 1..Len(kmsClients) : kmsClients[i].url = kmsClients[j].url => i = j
    /\ \A p \in Workers :
        tr[p].primitive # Nil =>
            /\ tr[p].primitive[1] \in {kmsClients[i] : i \in 1..Len(kmsClients)}
            /\ \A q \in Workers :
                (tr[q].primitive # Nil /\ tr[q].primitive[1].url = tr[p].primitive[1].url)
                    => tr[q].primitive = tr[p].primitive

\* The invocation has read the clock in getOrCreateDek and still holds the
\* DEK it had fetched.
PastExpiry(w) == w.pc \in {"wrap", "regDek", "material"}

\* C14: isExpired is true exactly when the mode is not read, expiryDays > 0,
\* a DEK was fetched and the clock read is at least expiryDays whole days
\* past the DEK's timestamp; a DEK stamped T under expiryDays = 2 is not
\* expired at T + 2 * 86400000 - 1 and is expired at T + 2 * 86400000; a
\* reader finds no DEK expired.
C14_ExpiryArithmetic ==
    \A p \in Workers :
        LET w == tr[p]
        IN  PastExpiry(w) =>
                /\ w.isExpired <=>
                    /\ w.ctx.RuleMode # Read
                    /\ w.ctx.ExpiryDays > 0
                    /\ w.dek # Nil
                    /\ w.clock - w.dek[1].Ts >= w.ctx.ExpiryDays * 86400000
                /\ (w.dek # Nil /\ w.ctx.ExpiryDays = 2 /\ w.ctx.RuleMode # Read) =>
                    /\ w.clock = w.dek[1].Ts + 2 * 86400000 - 1 => ~w.isExpired
                    /\ w.clock = w.dek[1].Ts + 2 * 86400000 => w.isExpired
                /\ isRead(w) => (~w.isExpired /\ w.pc = "material")

\* C14 witness: under expiryDays = 2 a writer read the clock at exactly two
\* days past the timestamp of the DEK it had fetched and found it expired.
C14_Witness ==
    \E p \in Workers :
        /\ PastExpiry(tr[p])
        /\ tr[p].ctx.RuleMode = Write
        /\ tr[p].ctx.ExpiryDays = 2
        /\ tr[p].dek # Nil
        /\ tr[p].clock = tr[p].dek[1].Ts + 2 * MillisInDay
        /\ tr[p].isExpired
        /\ tr[p].newVersion = 2

\* The places of the requests of one kind in an invocation's requests.
Ops(w, op) == {i \in 1..Len(w.reqs) : w.reqs[i].op = op}

\* The places where a registration of the kind reg was answered with a
\* conflict and the fetch after it found no record.
ConflictThenAbsent(w, reg) ==
    {i \in Ops(w, reg) : /\ w.reqs[i].st = "409"
                         /\ i < Len(w.reqs)
                         /\ w.reqs[i + 1].st = "404"}

\* One registration at most, and a fetch after the first only right after a
\* registration that gave no record; nothing of the kind follows that fetch.
AtMostOneRetry(w, reg, get) ==
    /\ Cardinality(Ops(w, reg)) <= 1
    /\ Cardinality(Ops(w, get)) <= 2
    /\ \A i, j \in Ops(w, get) :
        i < j => /\ j - 1 \in Ops(w, reg)
                 /\ w.reqs[j - 1].st # "200"
                 /\ \A k \in (j + 1)..Len(w.reqs) : w.reqs[k].op \notin {reg, get}

SharedKek == \E k \in keks : k.Shared

RecordsOf(u) ==
    {d \in DeksOf(deks, u.KekName, u.Subject, u.Algorithm) : d.Version = u.Version}

\* C18: an invocation that called getOrCreateDek and finished without error
\* encrypted or decrypted with a DEK that carries raw key material: the registry's record of it carries that material, or carries
\* none and the invocation called getAead and holds the record with the
\* material that unwrapping the record's encrypted material under the KEK's
\* URL gives.
C18_KeyMaterialPresent ==
    \A p \in Workers :
        LET w == tr[p]
        IN  /\ (w.pc = "done" /\ w.err = "" /\ Ops(w, "GetDek") # {}) =>
                /\ w.result # Nil
                /\ w.used # Nil
                /\ w.used[1].KeyMaterial # Nil
                /\ \E d \in RecordsOf(w.used[1]) :
                    IF d.KeyMaterial # Nil THEN w.used[1] = d
                    ELSE /\ w.kmsCalls >= 1
                         /\ \E k \in keks :
                             /\ k.Name = d.KekName
                             /\ w.used[1] =
                                  [d EXCEPT !.KeyMaterial =
                                      Ptr(AeadUnwrap(KekURL(k),
                                          DecodeString(d.EncryptedKeyMaterial).bytes).raw)]
            /\ w.used # Nil => (w.pc = "done" /\ w.err = "" /\ Ops(w, "GetDek") # {})

\* C18 witness: an invocation finished with a DEK that the registry holds
\* without raw key material and that the invocation unwrapped.
C18_Witness ==
    \E p \in Workers :
        /\ tr[p].pc = "done" /\ tr[p].err = "" /\ tr[p].result # Nil
        /\ tr[p].used # Nil
        /\ tr[p].kmsCalls >= 1
        /\ \E d \in RecordsOf(tr[p].used[1]) :
            /\ d.KeyMaterial = Nil
            /\ tr[p].used[1].KeyMaterial # Nil

\* C19 as stated: a Configure call that returned an error left the
\* configuration map and the registry client as they were before the call.
C19_Original ==
    (calls > 0 /\ last.err # "") =>
        /\ Config = last.before.Config
        /\ Client = last.before.Client

\* C20 as stated: an invocation that failed because its rule mode is neither
\* write nor read had no KEK and no DEK registered for it.
C20_Original ==
    \A p \in Workers :
        (tr[p].pc = "done" /\ tr[p].err = "unsupported rule mode") =>
            \A i \in Ops(tr[p], "RegisterKek") \cup Ops(tr[p], "RegisterDek") :
                tr[p].reqs[i].st # "200"

====
